---- MODULE Spec2Model ----
(***************************************************************************)
(* Bootstrap orchestration of the Flumio desktop launcher (src/main.ts,    *)
(* src/dockerInstallHelper.ts).                                            *)
(*                                                                         *)
(* bootstrapApp() is an async function: it runs from one await to the next *)
(* without interruption, and between two awaits any other event of the     *)
(* main process (a window being closed, "activate", another pass resuming) *)
(* may be handled.  Every action below is one such uninterrupted run.      *)
(* A Retry choice calls bootstrapApp() recursively, so one pass is a stack *)
(* of invocations of which only the innermost runs; depth counts them.     *)
(*                                                                         *)
(* app.quit() ends the process: once it has been called no handler runs.   *)
(***************************************************************************)
EXTENDS Integers, Sequences, FiniteSets

\* Bounds of the model.
MaxWindows == 3      \* BrowserWindows created in one run of the process
MaxPasses == 2       \* passes started by the ready and activate triggers

Passes == 1..MaxPasses
Windows == 1..MaxWindows
NoWindow == 0        \* the null of "BrowserWindow | null"

\* process.platform, reduced to what line 169 of main.ts tests.
Platforms == {"darwin", "other"}

\* The values startStack() resolves to, as main.ts compares them.
RuntimeStatus == {"docker_missing", "docker_daemon_off", "compose_error", "ready"}

VARIABLES
    platform,    \* process.platform
    appReady,    \* the "ready" event has fired
    created,     \* number of BrowserWindows constructed so far
    winOpen,     \* windows that exist (BrowserWindow.getAllWindows())
    content,     \* what each window displays: "blank", "placeholder", "app"
    hooked,      \* windows carrying a "closed" listener of line 152
    mainWindow,  \* the module-level handle
    quitCalls,   \* calls of app.quit()
    pc,          \* per pass: the await its innermost invocation is suspended on
    depth,       \* per pass: invocations of bootstrapApp on its stack
    trigger,     \* per pass: the handler that started it
    myWin,       \* per pass: the window its innermost invocation constructed
    loadWin,     \* per pass: the window receiving loadURL(APP_URL)
    log,         \* per pass: what the pass has done, in order
    lastEvent    \* the handler or continuation that ran last

vars == <<platform, appReady, created, winOpen, content, hooked, mainWindow,
          quitCalls, pc, depth, trigger, myWin, loadWin, log, lastEvent>>

winVars == <<created, winOpen, content, hooked, mainWindow>>

RECURSIVE Count(_, _)
\* Number of occurrences of e in the sequence s.
Count(s, e) ==
    IF s = <<>> THEN 0
    ELSE (IF Head(s) = e THEN 1 ELSE 0) + Count(Tail(s), e)

\* The process is still running: app.quit() has not been called.
Alive == quitCalls = 0

Init ==
    /\ platform \in Platforms
    /\ appReady = FALSE
    /\ created = 0
    /\ winOpen = {}
    /\ content = [w \in Windows |-> "blank"]
    /\ hooked = {}
    /\ mainWindow = NoWindow
    /\ quitCalls = 0
    /\ pc = [p \in Passes |-> "idle"]
    /\ depth = [p \in Passes |-> 0]
    /\ trigger = [p \in Passes |-> "none"]
    /\ myWin = [p \in Passes |-> NoWindow]
    /\ loadWin = [p \in Passes |-> NoWindow]
    /\ log = [p \in Passes |-> <<>>]
    /\ lastEvent = "none"

\* The pass runs on to its next await: it does `entries`, in order, and is
\* then suspended at `next`.  Each "quit" entry is one app.quit().
Advance(p, next, entries) ==
    /\ pc' = [pc EXCEPT ![p] = next]
    /\ log' = [log EXCEPT ![p] = log[p] \o entries]
    /\ quitCalls' = quitCalls + Count(entries, "quit")

\* The "ready" trigger's rejection handler without its app.quit().
ReadyCatch_NoQuit == <<"logError", "genericNotice">>

\* The rejection handler the "ready" trigger attaches to the pass.
ReadyCatch == <<"logError", "genericNotice", "quit">>

\* The "activate" trigger with no rejection handler on its pass.
ActivateCatch_Missing == <<>>

\* The rejection handler the "activate" trigger attaches to the pass.
ActivateCatch == <<"logError", "genericNotice", "quit">>

\* An exception in any invocation of the pass rejects every promise of the
\* stack (no invocation catches) and reaches the trigger's handler.
Throw(p, before) ==
    /\ Advance(p, "terminated",
               before \o (IF trigger[p] = "ready" THEN ReadyCatch ELSE ActivateCatch))
    /\ depth' = [depth EXCEPT ![p] = 0]

\* bootstrapApp() up to its first await: construct a window, store it in
\* mainWindow and start loading the placeholder page into it.
Enter(p, before) ==
    /\ created < MaxWindows
    /\ created' = created + 1
    /\ winOpen' = winOpen \cup {created + 1}
    /\ mainWindow' = created + 1
    /\ myWin' = [myWin EXCEPT ![p] = created + 1]
    /\ depth' = [depth EXCEPT ![p] = depth[p] + 1]
    /\ Advance(p, "loadPlaceholder", before \o <<"newWindow">>)
    /\ UNCHANGED <<content, hooked>>

\* The activate handler testing the owned handle instead of the open windows.
NoWindowsOpen_ByHandle == mainWindow = NoWindow

\* BrowserWindow.getAllWindows().length === 0
NoWindowsOpen == winOpen = {}

\* The "ready" handler: fires once, starts the first pass.
OnReady ==
    /\ Alive
    /\ ~appReady
    /\ appReady' = TRUE
    /\ trigger' = [trigger EXCEPT ![1] = "ready"]
    /\ Enter(1, <<>>)
    /\ lastEvent' = "ready"
    /\ UNCHANGED <<platform, loadWin>>

\* The "activate" handler (the event exists on macOS only): starts a pass
\* when no window is open and does nothing otherwise.
OnActivate ==
    /\ Alive
    /\ appReady
    /\ platform = "darwin"
    /\ IF NoWindowsOpen
       THEN \E p \in Passes :
               /\ pc[p] = "idle"
               /\ \A q \in Passes : q < p => pc[q] # "idle"
               /\ trigger' = [trigger EXCEPT ![p] = "activate"]
               /\ Enter(p, <<>>)
               /\ lastEvent' = "activate"
               /\ UNCHANGED <<platform, appReady, loadWin>>
       ELSE /\ lastEvent' = "activateIgnored"
            /\ UNCHANGED <<platform, appReady, winVars, quitCalls, pc, depth,
                           trigger, myWin, loadWin, log>>

\* The placeholder page has loaded (line 32 resolves); startStack() is called.
PlaceholderLoaded(p) ==
    /\ Alive
    /\ pc[p] = "loadPlaceholder"
    /\ myWin[p] \in winOpen
    /\ content' = [content EXCEPT ![myWin[p]] = "placeholder"]
    /\ Advance(p, "startStack", <<"startStack">>)
    /\ lastEvent' = "placeholderLoaded"
    /\ UNCHANGED <<platform, appReady, created, winOpen, hooked, mainWindow,
                   depth, trigger, myWin, loadWin>>

\* The window was closed while the placeholder page was loading: loadURL
\* rejects and the pass ends in its trigger's rejection handler.
PlaceholderFailed(p) ==
    /\ Alive
    /\ pc[p] = "loadPlaceholder"
    /\ myWin[p] \notin winOpen
    /\ Throw(p, <<"placeholderFailed">>)
    /\ lastEvent' = "placeholderFailed"
    /\ UNCHANGED <<platform, appReady, winVars, trigger, myWin, loadWin>>

\* AfterStatus without the compose_error branch of lines 130-137.
AfterStatus_NoComposeBranch(s) ==
    CASE s = "docker_missing" ->
            [next |-> "installDialog", entries |-> <<"installPrompt">>]
      [] s = "docker_daemon_off" ->
            [next |-> "daemonPrompt", entries |-> <<"daemonPrompt">>]
      [] OTHER ->
            [next |-> "waitReady", entries |-> <<"waitForHttpReady">>]

\* AfterStatus with the install prompt not awaited (line 75 without its
\* await): app.quit() is called while the prompt is still open.
AfterStatus_PromptNotAwaited(s) ==
    CASE s = "docker_missing" ->
            [next |-> "terminated", entries |-> <<"installPrompt", "quit">>]
      [] s = "docker_daemon_off" ->
            [next |-> "daemonPrompt", entries |-> <<"daemonPrompt">>]
      [] s = "compose_error" ->
            [next |-> "terminated", entries |-> <<"stackNotice", "quit">>]
      [] OTHER ->
            [next |-> "waitReady", entries |-> <<"waitForHttpReady">>]

\* AfterStatus with the comment of line 122 taken literally: a pass that has
\* been retried gets the error notice, not the prompt, on docker_daemon_off.
AfterStatus_RetryOnce(s) ==
    CASE s = "docker_missing" ->
            [next |-> "installDialog", entries |-> <<"installPrompt">>]
      [] s = "docker_daemon_off" /\ created = 1 ->
            [next |-> "daemonPrompt", entries |-> <<"daemonPrompt">>]
      [] s \in {"compose_error", "docker_daemon_off"} ->
            [next |-> "terminated", entries |-> <<"stackNotice", "quit">>]
      [] OTHER ->
            [next |-> "waitReady", entries |-> <<"waitForHttpReady">>]

\* AfterStatus with the compose_error branch returning after its notice
\* without app.quit() (line 135 missing): the pass is over, the process and
\* its placeholder window stay.
AfterStatus_NoQuitOnComposeError(s) ==
    CASE s = "docker_missing" ->
            [next |-> "installDialog", entries |-> <<"installPrompt">>]
      [] s = "docker_daemon_off" ->
            [next |-> "daemonPrompt", entries |-> <<"daemonPrompt">>]
      [] s = "compose_error" ->
            [next |-> "returned", entries |-> <<"stackNotice">>]
      [] OTHER ->
            [next |-> "waitReady", entries |-> <<"waitForHttpReady">>]

\* What one invocation does with the status startStack() resolved to, up to
\* its next await (lines 73-139).  dialog.showErrorBox blocks until the box
\* is dismissed and returns no promise, so a notice and the app.quit() after
\* it belong to the same uninterrupted run.
AfterStatus(s) ==
    CASE s = "docker_missing" ->
            [next |-> "installDialog", entries |-> <<"installPrompt">>]
      [] s = "docker_daemon_off" ->
            [next |-> "daemonPrompt", entries |-> <<"daemonPrompt">>]
      [] s = "compose_error" ->
            [next |-> "terminated", entries |-> <<"stackNotice", "quit">>]
      [] OTHER ->
            [next |-> "waitReady", entries |-> <<"waitForHttpReady">>]

\* startStack() resolves to s (line 71).
StartStackReturns(p, s) ==
    /\ Alive
    /\ pc[p] = "startStack"
    /\ Advance(p, AfterStatus(s).next, <<s>> \o AfterStatus(s).entries)
    /\ lastEvent' = "startStackReturned"
    /\ UNCHANGED <<platform, appReady, winVars, depth, trigger, myWin, loadWin>>

\* startStack() rejects.
StartStackThrows(p) ==
    /\ Alive
    /\ pc[p] = "startStack"
    /\ Throw(p, <<"startStackThrew">>)
    /\ lastEvent' = "startStackThrew"
    /\ UNCHANGED <<platform, appReady, winVars, trigger, myWin, loadWin>>

\* AfterInstallChoice with the download-page button leading back to a new
\* attempt instead of app.quit().
AfterInstallChoice_Retry(response) ==
    IF response = 0
    THEN [next |-> "startStack", entries |-> <<"installOpen", "startStack">>]
    ELSE [next |-> "terminated", entries |-> <<"installQuit", "quit">>]

\* showDockerMissingDialog() after its message box answered `response`
\* (dockerInstallHelper.ts lines 65-71) and, where it returns at once, the
\* app.quit() of main.ts line 76.
AfterInstallChoice(response) ==
    IF response = 0
    THEN [next |-> "openExternal", entries |-> <<"installOpen", "openExternal">>]
    ELSE [next |-> "terminated", entries |-> <<"installQuit", "quit">>]

\* The user answers the install prompt.
InstallDialogAnswered(p, response) ==
    /\ Alive
    /\ pc[p] = "installDialog"
    /\ Advance(p, AfterInstallChoice(response).next,
               AfterInstallChoice(response).entries)
    /\ lastEvent' = "installAnswered"
    /\ UNCHANGED <<platform, appReady, winVars, depth, trigger, myWin, loadWin>>

\* shell.openExternal resolves: the helper returns "quit", main.ts quits.
OpenExternalDone(p) ==
    /\ Alive
    /\ pc[p] = "openExternal"
    /\ Advance(p, "terminated", <<"quit">>)
    /\ lastEvent' = "openExternalDone"
    /\ UNCHANGED <<platform, appReady, winVars, depth, trigger, myWin, loadWin>>

\* shell.openExternal rejects.
OpenExternalFails(p) ==
    /\ Alive
    /\ pc[p] = "openExternal"
    /\ Throw(p, <<"openExternalFailed">>)
    /\ lastEvent' = "openExternalFailed"
    /\ UNCHANGED <<platform, appReady, winVars, trigger, myWin, loadWin>>

\* DaemonPromptAnswered with Retry going on in the same invocation instead
\* of calling bootstrapApp() again.
DaemonPromptAnswered_NoReentry(p, response) ==
    /\ Alive
    /\ pc[p] = "daemonPrompt"
    /\ IF response = 0
       THEN Advance(p, "waitReady", <<"retry", "waitForHttpReady">>)
       ELSE Advance(p, "terminated", <<"quitChoice", "quit">>)
    /\ lastEvent' = "daemonAnswered"
    /\ UNCHANGED <<platform, appReady, winVars, depth, trigger, myWin, loadWin>>

\* DaemonPromptAnswered without the return of line 127: after app.quit()
\* the invocation falls through to the readiness probe.
DaemonPromptAnswered_QuitFallsThrough(p, response) ==
    /\ Alive
    /\ pc[p] = "daemonPrompt"
    /\ IF response = 0
       THEN /\ Enter(p, <<"retry">>)
            /\ UNCHANGED <<trigger, loadWin>>
       ELSE /\ Advance(p, "waitReady", <<"quitChoice", "quit", "waitForHttpReady">>)
            /\ UNCHANGED <<winVars, depth, trigger, myWin, loadWin>>
    /\ lastEvent' = "daemonAnswered"
    /\ UNCHANGED <<platform, appReady>>

\* The user answers the Retry/Quit prompt (lines 121-127): Retry calls
\* bootstrapApp() again, Quit (or dismissing the box) quits.
DaemonPromptAnswered(p, response) ==
    /\ Alive
    /\ pc[p] = "daemonPrompt"
    /\ IF response = 0
       THEN /\ Enter(p, <<"retry">>)
            /\ UNCHANGED <<trigger, loadWin>>
       ELSE /\ Advance(p, "terminated", <<"quitChoice", "quit">>)
            /\ UNCHANGED <<winVars, depth, trigger, myWin, loadWin>>
    /\ lastEvent' = "daemonAnswered"
    /\ UNCHANGED <<platform, appReady>>

\* A method call on mainWindow throws: the handle is null, or the window it
\* refers to has been destroyed.
HandleUnusable == mainWindow = NoWindow \/ mainWindow \notin winOpen

\* WaitReadyReturns without the return of line 147: after the notice and
\* app.quit() the invocation goes on to loadURL(APP_URL).
WaitReadyReturns_NoReturn(p, isReady) ==
    /\ Alive
    /\ pc[p] = "waitReady"
    /\ LET said == IF isReady THEN <<"isReady">>
                   ELSE <<"notReady", "readinessNotice", "quit">>
       IN  IF HandleUnusable
           THEN /\ Throw(p, said \o <<"windowGone">>)
                /\ UNCHANGED loadWin
           ELSE /\ Advance(p, "loadApp", said \o <<"loadURL">>)
                /\ loadWin' = [loadWin EXCEPT ![p] = mainWindow]
                /\ UNCHANGED depth
    /\ lastEvent' = "waitReadyReturned"
    /\ UNCHANGED <<platform, appReady, winVars, trigger, myWin>>

\* WaitReadyReturns without the test of lines 141-148: the target URL is
\* loaded whatever the probe returned.
WaitReadyReturns_ResultIgnored(p, isReady) ==
    /\ Alive
    /\ pc[p] = "waitReady"
    /\ LET said == IF isReady THEN <<"isReady">> ELSE <<"notReady">>
       IN  IF HandleUnusable
           THEN /\ Throw(p, said \o <<"windowGone">>)
                /\ UNCHANGED loadWin
           ELSE /\ Advance(p, "loadApp", said \o <<"loadURL">>)
                /\ loadWin' = [loadWin EXCEPT ![p] = mainWindow]
                /\ UNCHANGED depth
    /\ lastEvent' = "waitReadyReturned"
    /\ UNCHANGED <<platform, appReady, winVars, trigger, myWin>>

\* waitForHttpReady() resolves to isReady (lines 139-150).
WaitReadyReturns(p, isReady) ==
    /\ Alive
    /\ pc[p] = "waitReady"
    /\ IF ~isReady
       THEN /\ Advance(p, "terminated", <<"notReady", "readinessNotice", "quit">>)
            /\ UNCHANGED <<depth, loadWin>>
       ELSE IF HandleUnusable
       THEN /\ Throw(p, <<"isReady", "windowGone">>)
            /\ UNCHANGED loadWin
       ELSE /\ Advance(p, "loadApp", <<"isReady", "loadURL">>)
            /\ loadWin' = [loadWin EXCEPT ![p] = mainWindow]
            /\ UNCHANGED depth
    /\ lastEvent' = "waitReadyReturned"
    /\ UNCHANGED <<platform, appReady, winVars, trigger, myWin>>

\* waitForHttpReady() rejects.
WaitReadyThrows(p) ==
    /\ Alive
    /\ pc[p] = "waitReady"
    /\ Throw(p, <<"waitReadyThrew">>)
    /\ lastEvent' = "waitReadyThrew"
    /\ UNCHANGED <<platform, appReady, winVars, trigger, myWin, loadWin>>

\* AfterRetryReturns without the return of line 127: the invocation that
\* offered the retry falls through to the readiness probe.
AfterRetryReturns_FallsThrough == <<"waitForHttpReady">>

\* What an invocation suspended on `await bootstrapApp()` does when the
\* nested invocation has returned (line 127).
AfterRetryReturns == <<"return">>

RECURSIVE Unwind(_)
\* The invocations of the stack return one after the other, innermost first.
Unwind(n) ==
    IF n <= 1 THEN <<"return">>
    ELSE Unwind(n - 1) \o AfterRetryReturns

\* loadURL(APP_URL) resolves (lines 150-155): the "closed" listener is put
\* on whatever mainWindow refers to now, and every invocation returns.
AppLoaded(p) ==
    /\ Alive
    /\ pc[p] = "loadApp"
    /\ loadWin[p] \in winOpen
    /\ content' = [content EXCEPT ![loadWin[p]] = "app"]
    /\ IF mainWindow = NoWindow
       THEN /\ Throw(p, <<"loaded", "handleNull">>)
            /\ UNCHANGED hooked
       ELSE /\ hooked' = hooked \cup {mainWindow}
            /\ Advance(p, "launched", <<"loaded", "hook">> \o Unwind(depth[p]))
            /\ depth' = [depth EXCEPT ![p] = 0]
    /\ lastEvent' = "appLoaded"
    /\ UNCHANGED <<platform, appReady, created, winOpen, mainWindow, trigger,
                   myWin, loadWin>>

\* The window was closed while APP_URL was loading: loadURL rejects.
AppLoadFailed(p) ==
    /\ Alive
    /\ pc[p] = "loadApp"
    /\ loadWin[p] \notin winOpen
    /\ Throw(p, <<"loadFailed">>)
    /\ lastEvent' = "appLoadFailed"
    /\ UNCHANGED <<platform, appReady, winVars, trigger, myWin, loadWin>>

\* The "closed" listener of lines 152-154, run for window w.
ClosedListener(w) == IF w \in hooked THEN NoWindow ELSE mainWindow

\* The user closes window w: its "closed" listeners run, then, if it was the
\* last window, "window-all-closed" (lines 168-170).
CloseWindow(w) ==
    /\ Alive
    /\ w \in winOpen
    /\ winOpen' = winOpen \ {w}
    /\ mainWindow' = ClosedListener(w)
    /\ quitCalls' = IF winOpen' = {} /\ platform # "darwin"
                    THEN quitCalls + 1 ELSE quitCalls
    /\ lastEvent' = "windowClosed"
    /\ UNCHANGED <<platform, appReady, created, content, hooked, pc, depth,
                   trigger, myWin, loadWin, log>>

Next ==
    \/ OnReady
    \/ OnActivate
    \/ \E p \in Passes : PlaceholderLoaded(p)
    \/ \E p \in Passes : PlaceholderFailed(p)
    \/ \E p \in Passes, s \in RuntimeStatus : StartStackReturns(p, s)
    \/ \E p \in Passes : StartStackThrows(p)
    \/ \E p \in Passes, r \in {0, 1} : InstallDialogAnswered(p, r)
    \/ \E p \in Passes : OpenExternalDone(p)
    \/ \E p \in Passes : OpenExternalFails(p)
    \/ \E p \in Passes, r \in {0, 1} : DaemonPromptAnswered(p, r)
    \/ \E p \in Passes, b \in BOOLEAN : WaitReadyReturns(p, b)
    \/ \E p \in Passes : WaitReadyThrows(p)
    \/ \E p \in Passes : AppLoaded(p)
    \/ \E p \in Passes : AppLoadFailed(p)
    \/ \E w \in Windows : CloseWindow(w)

Spec == Init /\ [][Next]_vars

\* Pass p resumes: the call or dialog it is suspended on resolves or rejects.
PassStep(p) ==
    \/ PlaceholderLoaded(p)
    \/ PlaceholderFailed(p)
    \/ \E s \in RuntimeStatus : StartStackReturns(p, s)
    \/ StartStackThrows(p)
    \/ \E r \in {0, 1} : InstallDialogAnswered(p, r)
    \/ OpenExternalDone(p)
    \/ OpenExternalFails(p)
    \/ \E r \in {0, 1} : DaemonPromptAnswered(p, r)
    \/ \E b \in BOOLEAN : WaitReadyReturns(p, b)
    \/ WaitReadyThrows(p)
    \/ AppLoaded(p)
    \/ AppLoadFailed(p)

\* The program when every call and dialog a pass awaits is eventually
\* resolved, rejected or answered.
FairSpec == Spec /\ \A p \in Passes : WF_vars(PassStep(p))

(***************************************************************************)
(* Vocabulary of the properties.                                           *)
(***************************************************************************)

\* e occurs in the sequence s.
Has(s, e) == \E i \in 1..Len(s) : s[i] = e

\* What pass p did after the i-th entry of its log.
After(p, i) == SubSeq(log[p], i + 1, Len(log[p]))

\* The passes that have been started.
Started == {p \in Passes : pc[p] # "idle"}

\* The prompt, notice or probe the design documents for each status.
Documented(s) ==
    CASE s = "docker_missing" -> "installPrompt"
      [] s = "docker_daemon_off" -> "daemonPrompt"
      [] s = "compose_error" -> "stackNotice"
      [] s = "ready" -> "waitForHttpReady"

StatusSteps == {Documented(s) : s \in RuntimeStatus}

\* Index of the first startStack() call pass p made after entry i, or one
\* past the end of its log.
NextStart(p, i) ==
    LET later == {j \in (i + 1)..Len(log[p]) : log[p][j] = "startStack"}
    IN  IF later = {} THEN Len(log[p]) + 1
        ELSE CHOOSE j \in later : \A k \in later : j <= k

(***************************************************************************)
(* C1.  Whatever status startStack() returns, the invocation takes the     *)
(* documented next step at once (install prompt, Retry/Quit prompt, error  *)
(* notice followed by exit, readiness probe), and until the pass calls     *)
(* startStack() again it takes no step documented for another status.      *)
(***************************************************************************)
C1_StatusTakesDocumentedStep ==
    \A p \in Passes : \A i \in 1..Len(log[p]) :
        log[p][i] \in RuntimeStatus =>
            /\ i < Len(log[p])
            /\ log[p][i + 1] = Documented(log[p][i])
            /\ \A j \in (i + 2)..(NextStart(p, i) - 1) : log[p][j] \notin StatusSteps
            /\ log[p][i] = "compose_error" =>
                   /\ After(p, i) = <<"stackNotice", "quit">>
                   /\ pc[p] = "terminated"
                   /\ quitCalls = 1
            /\ log[p][i] = "docker_missing" /\ pc[p] = "terminated" =>
                   /\ log[p][Len(log[p])] = "quit"
                   /\ quitCalls = 1

\* A pass got docker_daemon_off, was retried, got ready and probed, while
\* another pass got docker_missing and shows the install prompt.
C1_Witness ==
    \E p, q \in Passes :
        /\ Has(log[p], "docker_daemon_off")
        /\ Has(log[p], "waitForHttpReady")
        /\ Has(log[q], "installPrompt")

(***************************************************************************)
(* C2.  A Retry reuses the window: however many times a pass is retried,   *)
(* it has constructed exactly one window.                                  *)
(***************************************************************************)
C2_RetryReusesWindow ==
    \A p \in Started : Count(log[p], "newWindow") = 1

BeforeStartStack(p) ==
    pc[p] = "loadPlaceholder" \/ Has(log[p], "placeholderFailed")

OwnedWindowClosed == appReady /\ HandleUnusable

(***************************************************************************)
(* C4.  Once the owned window has been closed, an activate event           *)
(* constructs exactly one window and starts exactly one pass.              *)
(***************************************************************************)
C4_ActivateStartsOnePass ==
    [][(OnActivate /\ OwnedWindowClosed) =>
           /\ created' = created + 1
           /\ Cardinality({p \in Passes : pc'[p] # "idle"}) = Cardinality(Started) + 1
      ]_vars

\* The notices and prompts that report a failure.
ErrorNotices == {"stackNotice", "readinessNotice", "genericNotice"}

(***************************************************************************)
(* C5.  When startStack() returned ready and waitForHttpReady() returned   *)
(* true, the pass shows no error notice and, once it has finished, its     *)
(* window displays the target URL - whenever windows are closed.           *)
(***************************************************************************)
C5_ReadyLoadsTargetUrl ==
    \A p \in Passes :
        Has(log[p], "isReady") =>
            /\ \A e \in ErrorNotices : ~Has(log[p], e)
            /\ pc[p] \in {"loadApp", "launched"}
            /\ pc[p] = "launched" => content[loadWin[p]] = "app"

(***************************************************************************)
(* C6.  When startStack() returned ready and waitForHttpReady() returned   *)
(* false, the pass shows the readiness notice, calls app.quit() and ends;  *)
(* it never calls loadURL(APP_URL).                                        *)
(***************************************************************************)
C6_NotReadyTerminates ==
    \A p \in Passes : \A i \in 1..Len(log[p]) :
        log[p][i] = "notReady" =>
            /\ log[p][i - 1] = "waitForHttpReady"
            /\ After(p, i) = <<"readinessNotice", "quit">>
            /\ pc[p] = "terminated"
            /\ quitCalls = 1
            /\ ~Has(log[p], "loadURL")
            /\ \A w \in Windows : content[w] = "app" =>
                   \E q \in Passes \ {p} : Has(log[q], "loaded")

\* A retried pass got ready, its probe returned false.
C6_Witness ==
    \E p \in Passes :
        /\ Has(log[p], "notReady")
        /\ Has(log[p], "retry")

(***************************************************************************)
(* C7.  When the user chooses Quit at the Retry/Quit prompt, app.quit() is *)
(* called and the pass has never called waitForHttpReady(), however many   *)
(* Retry choices came before.                                              *)
(***************************************************************************)
C7_QuitChoiceNeverProbes ==
    \A p \in Passes : \A i \in 1..Len(log[p]) :
        log[p][i] = "quitChoice" =>
            /\ log[p][i - 1] = "daemonPrompt"
            /\ After(p, i) = <<"quit">>
            /\ pc[p] = "terminated"
            /\ quitCalls = 1
            /\ ~Has(log[p], "waitForHttpReady")

\* The user chose Retry twice, then Quit.
C7_Witness ==
    \E p \in Passes :
        /\ Has(log[p], "quitChoice")
        /\ Count(log[p], "retry") = 2

\* What a pass may do in the same run after an install prompt.
AfterInstallPrompt ==
    { <<>>,
      <<"installQuit", "quit">>,
      <<"installOpen", "openExternal">>,
      <<"installOpen", "openExternal", "quit">>,
      <<"installOpen", "openExternal", "openExternalFailed",
        "logError", "genericNotice", "quit">> }

(***************************************************************************)
(* C8.  After startStack() returned docker_missing the pass shows the      *)
(* install prompt and, whichever button is pressed, goes on to app.quit(): *)
(* it calls neither startStack() nor waitForHttpReady() nor loadURL again, *)
(* and when it has ended app.quit() has been called.                       *)
(***************************************************************************)
C8_RuntimeMissingAlwaysQuits ==
    \A p \in Passes : \A i \in 1..Len(log[p]) :
        log[p][i] = "docker_missing" =>
            /\ i < Len(log[p])
            /\ log[p][i + 1] = "installPrompt"
            /\ After(p, i + 1) \in AfterInstallPrompt
            /\ pc[p] \in {"installDialog", "openExternal", "terminated"}
            /\ pc[p] = "installDialog" <=> After(p, i + 1) = <<>>
            /\ pc[p] = "terminated" <=> log[p][Len(log[p])] = "quit"
            /\ pc[p] = "terminated" => quitCalls = 1

\* The user pressed "Open Docker download page" and the pass has ended.
C8_Witness ==
    \E p \in Passes :
        /\ Has(log[p], "installOpen")
        /\ pc[p] = "terminated"

(***************************************************************************)
(* C9.  When startStack() or waitForHttpReady() throws, in a pass of       *)
(* either trigger and at any depth of retry, the error is logged, one      *)
(* generic notice is shown and app.quit() is called; nothing else follows, *)
(* in particular no loadURL(APP_URL).                                      *)
(***************************************************************************)
C9_ExceptionLoggedNoticedQuit ==
    \A p \in Passes : \A i \in 1..Len(log[p]) :
        log[p][i] \in {"startStackThrew", "waitReadyThrew"} =>
            /\ After(p, i) = <<"logError", "genericNotice", "quit">>
            /\ pc[p] = "terminated"
            /\ quitCalls = 1
            /\ Count(log[p], "genericNotice") = 1

\* waitForHttpReady() threw in a retried pass that activate had started.
C9_Witness ==
    \E p \in Passes :
        /\ trigger[p] = "activate"
        /\ Has(log[p], "retry")
        /\ Has(log[p], "waitReadyThrew")

(***************************************************************************)
(* C10.  A non-null mainWindow refers to an open window: when the user     *)
(* closes the owned window the handle is cleared, before or after launch.  *)
(***************************************************************************)
C10_HandleRefersToOpenWindow ==
    mainWindow # NoWindow => mainWindow \in winOpen

\* Pass p is in flight against the handle: it is suspended at an await after
\* which it reads or writes mainWindow.
UsesHandle(p) ==
    \/ pc[p] \in {"startStack", "daemonPrompt", "waitReady", "loadApp"}
    \/ pc[p] = "loadPlaceholder" /\ myWin[p] \in winOpen

(***************************************************************************)
(* C11.  At most one pass (a retry chain counting as one) is in flight     *)
(* against mainWindow at any time.                                         *)
(***************************************************************************)
C11_OnePassInFlight ==
    Cardinality({p \in Passes : UsesHandle(p)}) <= 1

(***************************************************************************)
(* C12.  An activate event starts a pass and constructs a window only when *)
(* no window is open, and then exactly one of each; when a window is open  *)
(* it constructs no window, starts no pass and no pass does anything.      *)
(***************************************************************************)
C12_ActivateOnlyWithNoWindow ==
    [][/\ lastEvent' = "activate" =>
              /\ winOpen = {}
              /\ created' = created + 1
              /\ winOpen' = {created'}
              /\ Cardinality({p \in Passes : pc'[p] # "idle"}) =
                     Cardinality(Started) + 1
       /\ lastEvent' = "activateIgnored" =>
              /\ winOpen # {}
              /\ UNCHANGED <<winVars, quitCalls, pc, depth, log>>
      ]_vars

\* An activate event arrived while the window of the pass that an earlier
\* activate event had started was open.
C12_Witness ==
    /\ lastEvent = "activateIgnored"
    /\ trigger[2] = "activate"
    /\ winOpen # {}

\* A prompt of some pass is open, awaiting the user's answer.
PromptPending == \E p \in Passes : pc[p] \in {"installDialog", "daemonPrompt"}

(***************************************************************************)
(* C13 as stated.  app.quit() is never called while a prompt shown by any  *)
(* pass is awaiting its answer.                                            *)
(***************************************************************************)
C13_NoQuitWhilePromptPending ==
    quitCalls > 0 => ~PromptPending

\* The entries that record the user's answer to a prompt.
AnswerTo(prompt) ==
    IF prompt = "installPrompt" THEN {"installOpen", "installQuit"}
    ELSE {"retry", "quitChoice"}

(***************************************************************************)
(* C13 as amended.  A pass calls app.quit() only after every prompt it has *)
(* shown was answered and, where it shows a notice, after the notice: its  *)
(* app.quit() is the last thing it does and it is not suspended on a       *)
(* prompt then.                                                            *)
(***************************************************************************)
C13_PassQuitsAfterItsDialogs ==
    \A p \in Passes : \A i \in 1..Len(log[p]) :
        log[p][i] = "quit" =>
            /\ i = Len(log[p])
            /\ pc[p] = "terminated"
            /\ log[p][i - 1] \notin {"installPrompt", "daemonPrompt"}
            /\ \A j \in 1..(i - 1) :
                   log[p][j] \in {"installPrompt", "daemonPrompt"} =>
                       log[p][j + 1] \in AnswerTo(log[p][j])
            /\ \A e \in ErrorNotices : Has(log[p], e) => log[p][i - 1] = e

\* A pass was retried, showed the install prompt, had it answered and quit.
C13_Witness ==
    \E p \in Passes :
        /\ Has(log[p], "retry")
        /\ Has(log[p], "installQuit")
        /\ quitCalls = 1

(***************************************************************************)
(* C14.  The step taken after startStack() returns depends on the status   *)
(* returned alone: wherever the same status was returned - in whichever    *)
(* pass, after however many retries and whatever earlier statuses - the    *)
(* same step followed it.                                                  *)
(***************************************************************************)
C14_StepDependsOnStatusOnly ==
    \A p, q \in Passes : \A i \in 1..Len(log[p]) : \A j \in 1..Len(log[q]) :
        log[p][i] \in RuntimeStatus /\ log[q][j] = log[p][i] =>
            /\ i < Len(log[p])
            /\ j < Len(log[q])
            /\ log[p][i + 1] = log[q][j + 1]

\* docker_daemon_off was returned to a fresh pass, to the same pass after a
\* retry, and to another pass.
C14_Witness ==
    \E p, q \in Passes :
        /\ p # q
        /\ Count(log[p], "docker_daemon_off") = 2
        /\ Has(log[q], "docker_daemon_off")

(***************************************************************************)
(* C15.  loadURL(APP_URL) is called only right after waitForHttpReady()    *)
(* returned true, which was called right after the latest startStack() of  *)
(* the pass returned ready; waitForHttpReady() is called only right after  *)
(* startStack() returned ready, and at most once by a pass; a window       *)
(* displays the target URL only if a pass loaded it that way.              *)
(***************************************************************************)
C15_LoadOnlyAfterReadyAndProbe ==
    /\ \A p \in Passes : \A i \in 1..Len(log[p]) :
           /\ log[p][i] = "loadURL" =>
                  /\ i > 4
                  /\ SubSeq(log[p], i - 4, i - 1) =
                         <<"startStack", "ready", "waitForHttpReady", "isReady">>
                  /\ NextStart(p, i - 4) = Len(log[p]) + 1
           /\ log[p][i] = "waitForHttpReady" =>
                  /\ i > 2
                  /\ SubSeq(log[p], i - 2, i - 1) = <<"startStack", "ready">>
    /\ \A p \in Passes : Count(log[p], "waitForHttpReady") <= 1
    /\ \A w \in Windows : content[w] = "app" =>
           \E p \in Passes : loadWin[p] = w /\ Has(log[p], "loaded")

\* A retried pass has loaded the target URL.
C15_Witness ==
    \E p \in Passes :
        /\ Has(log[p], "retry")
        /\ Has(log[p], "loaded")
        /\ content[loadWin[p]] = "app"

(***************************************************************************)
(* C16.  When every call and dialog a pass awaits is eventually resolved   *)
(* or answered, and the user does not choose Retry for ever, every pass    *)
(* that was started eventually is Launched or Terminated (the process      *)
(* having been told to exit terminates every pass).                        *)
(***************************************************************************)
C16_EveryPassEnds ==
    \A p \in Passes :
        (pc[p] # "idle") ~> (pc[p] \in {"launched", "terminated"} \/ ~Alive)

\* A pass was retried twice and was launched.
C16_Witness ==
    \E p \in Passes :
        /\ Count(log[p], "retry") = 2
        /\ pc[p] = "launched"

\* The ways a run ends in Terminated, as a pass surfaces them to the user.
TerminalOutcomes ==
    {"installPrompt", "stackNotice", "readinessNotice", "genericNotice",
     "quitChoice"}

RECURSIVE Sum(_, _)
\* Sum of f over the finite set S.
Sum(f, S) ==
    IF S = {} THEN 0
    ELSE LET x == CHOOSE y \in S : TRUE IN f[x] + Sum(f, S \ {x})

\* Number of terminal outcomes pass p has surfaced.
Surfaced(p) == Sum([e \in TerminalOutcomes |-> Count(log[p], e)], TerminalOutcomes)

(***************************************************************************)
(* C17 as stated.  A pass that has ended in Terminated has surfaced        *)
(* exactly one terminal outcome and has called app.quit() exactly once, at *)
(* any depth of retry.                                                     *)
(***************************************************************************)
C17_OneOutcomePerTermination ==
    \A p \in Passes :
        pc[p] = "terminated" =>
            /\ Surfaced(p) = 1
            /\ Count(log[p], "quit") = 1
            /\ quitCalls = 1

(***************************************************************************)
(* C17 as amended.  A pass that has ended in Terminated has called         *)
(* app.quit() exactly once and has surfaced exactly one terminal outcome,  *)
(* except when shell.openExternal failed after the install prompt: then    *)
(* the generic notice followed the install prompt, and nothing else.       *)
(***************************************************************************)
C17_OneOutcomeUnlessOpenExternalFails ==
    \A p \in Passes :
        pc[p] = "terminated" =>
            /\ Count(log[p], "quit") = 1
            /\ quitCalls = 1
            /\ IF Has(log[p], "openExternalFailed")
               THEN /\ Surfaced(p) = 2
                    /\ Count(log[p], "installPrompt") = 1
                    /\ Count(log[p], "genericNotice") = 1
               ELSE Surfaced(p) = 1

\* A pass retried twice ended in Terminated on the stack-failed notice.
C17_Witness ==
    \E p \in Passes :
        /\ Count(log[p], "retry") = 2
        /\ Has(log[p], "stackNotice")
        /\ pc[p] = "terminated"

(***************************************************************************)
(* C18.  When the invocation started by a Retry choice has finished, the   *)
(* invocations that offered the retries only return: after the launch      *)
(* nothing but one return per invocation follows, and after app.quit()     *)
(* nothing follows at all.                                                 *)
(***************************************************************************)
C18_OuterInvocationOnlyReturns ==
    \A p \in Passes : \A i \in 1..Len(log[p]) :
        /\ log[p][i] = "hook" =>
               /\ pc[p] = "launched"
               /\ Len(After(p, i)) = Count(log[p], "retry") + 1
               /\ \A j \in 1..Len(After(p, i)) : After(p, i)[j] = "return"
        /\ log[p][i] = "quit" => After(p, i) = <<>>
        /\ log[p][i] = "return" => Has(SubSeq(log[p], 1, i), "hook")

\* A pass retried twice was launched and its three invocations returned.
C18_Witness ==
    \E p \in Passes :
        /\ Count(log[p], "retry") = 2
        /\ Count(log[p], "return") = 3

(***************************************************************************)
(* C19.  Whenever a pass calls loadURL(APP_URL), and whenever it attaches  *)
(* the closed listener, mainWindow refers to the open window that the      *)
(* pass's own innermost invocation constructed.                            *)
(***************************************************************************)
C19_LaunchUsesOwnWindow ==
    [][\A p \in Passes :
           \/ pc[p] = "waitReady" /\ pc'[p] = "loadApp"
           \/ pc[p] = "loadApp" /\ pc'[p] = "launched"
           => /\ mainWindow = myWin[p]
              /\ mainWindow \in winOpen
      ]_vars

====
